---- MODULE Spec2Model ----
(***************************************************************************)
(* shared-mutex: a reader-writer lock whose guards can wait on a Condvar.  *)
(*                                                                         *)
(* Two layers are modelled.  The guard layer (SharedMutex and its guards,  *)
(* src/src/lib.rs) decides which raw operation each method calls and which *)
(* guard it hands to the caller.  The raw layer (RawSharedMutex, module    *)
(* raw, whose file is not part of the sources at hand) is the state word,  *)
(* the internal mutex and the two condition variables; it is modelled from *)
(* sections 3 and 4 of the specification.                                  *)
(***************************************************************************)
EXTENDS Integers, FiniteSets, Sequences, TLC

\* ------------------------------------------------------------------ bounds
NumThreads == 3      \* threads of the free-running clients (Spec)
MAX_READERS == 2     \* capacity of the readers field (an artificially small cap)
NumWorkers == 2      \* threads of test_simple_multithreaded (SerialSpec)
NumIters == 2        \* iterations per worker (SerialSpec)
NumReaders == 3      \* readers arriving around the writer (PrefSpec)

\* --------------------------------------------------------------- state word
\* the readers field counts 0..MAX_READERS; the writer_active flag is the
\* digit above it, so that a carry out of the readers field lands in the flag
WRITER_ACTIVE == MAX_READERS + 1
WordMod == 2 * WRITER_ACTIVE

is_writer_active(s) == (s \div WRITER_ACTIVE) % 2 = 1
readers(s) == s % WRITER_ACTIVE
at_max_readers(s) == readers(s) = MAX_READERS
one_below_max_readers(s) == readers(s) = MAX_READERS - 1
set_writer_active(s) == IF is_writer_active(s) THEN s ELSE (s + WRITER_ACTIVE) % WordMod
clear_all(s) == 0
add_reader(s) == (s + 1) % WordMod
remove_reader(s) == (s - 1) % WordMod

\* ------------------------------------------------------------------- state
VARIABLES
  state,      \* the state word of the raw lock
  mx,         \* owner of the internal mutex, or NoThread
  both_w,     \* threads blocked on the condition variable `both`
  readers_w,  \* threads blocked on the condition variable `readers`
  cond_w,     \* threads blocked on the caller's Condvar `cond`
  pc,         \* per thread: "idle", or the raw step it runs next
  dest,       \* per thread: the acquire half a transition resumes with
  call,       \* per thread: the lib.rs method it is inside, or "none"
  mk,         \* per thread: the guard that method builds when raw returns
  guard,      \* per thread: the guard it owns: "none", "read", "write",
              \* "mapped_read", "mapped_write"
  wb,         \* per thread: its last try_write met a held reader
  prog,       \* per thread: position in its test program
  data,       \* the protected value
  iter,       \* per thread: iterations of its test program completed
  tmp,        \* per thread: value loaded by `+= 1`
  before,     \* per thread: sample taken before the write
  after,      \* per thread: sample taken after the write
  other       \* the state word of a second SharedMutex

lockvars == <<state, mx, both_w, readers_w, cond_w, pc, dest, call, mk, guard, wb>>
uservars == <<prog, iter, data, tmp, before, after, other>>
vars == <<state, mx, both_w, readers_w, cond_w, pc, dest, call, mk, guard, wb,
          prog, iter, data, tmp, before, after, other>>

NoThread == 0
Threads == DOMAIN pc

Idle(t) == pc[t] = "idle"
Blocked(t) == t \in both_w \/ t \in readers_w \/ t \in cond_w

\* ------------------------------------------------- std::sync primitives
\* Condvar::notify_one: some waiter leaves the set, if there is one
notify_one(W, W2) == IF W = {} THEN W2 = {} ELSE \E u \in W : W2 = W \ {u}

\* Mutex::lock, also the re-lock at the end of Condvar::wait: a thread that
\* is not blocked on a condition variable takes the free internal mutex
lock(t) == ~Blocked(t) /\ mx = NoThread

\* Condvar::wait may return without a notification
SpuriousWake(t) ==
  /\ Blocked(t)
  /\ both_w' = both_w \ {t}
  /\ readers_w' = readers_w \ {t}
  /\ cond_w' = cond_w \ {t}
  /\ UNCHANGED <<state, mx, pc, dest, call, mk, guard, wb>>
  /\ UNCHANGED uservars

\* ------------------------------------------------------ raw layer: returns
\* the raw call returns to the lib.rs method, which builds its guard (or,
\* for a failed try_*, reports WouldBlock) and returns to the caller
Return(t, ok) ==
  /\ mx' = NoThread
  /\ pc' = [pc EXCEPT ![t] = "idle"]
  /\ call' = [call EXCEPT ![t] = "none"]
  /\ guard' = [guard EXCEPT ![t] = IF ok THEN mk[t] ELSE "none"]
  /\ dest' = [dest EXCEPT ![t] = "none"]
  /\ mk' = [mk EXCEPT ![t] = "none"]

\* ------------------------------------------------- raw layer: acquire halves
read_from(t) ==
  /\ pc[t] = "read_from" /\ lock(t)
  /\ IF is_writer_active(state) \/ at_max_readers(state)
       THEN /\ both_w' = both_w \cup {t}
            /\ mx' = NoThread
            /\ UNCHANGED <<state, pc, dest, call, mk, guard>>
       ELSE /\ state' = add_reader(state)
            /\ Return(t, TRUE)
            /\ UNCHANGED both_w
  /\ UNCHANGED <<readers_w, cond_w, wb>>
  /\ UNCHANGED uservars

\* the flag is set and the readers are looked at under one hold of the
\* internal mutex; a writer woken on `readers` resumes at write_drain
write_from(t) ==
  /\ pc[t] = "write_from" /\ lock(t)
  /\ IF is_writer_active(state)
       THEN /\ both_w' = both_w \cup {t}
            /\ mx' = NoThread
            /\ UNCHANGED <<state, readers_w, pc, dest, call, mk, guard>>
       ELSE /\ state' = set_writer_active(state)
            /\ IF readers(state') # 0
                 THEN /\ readers_w' = readers_w \cup {t}
                      /\ mx' = NoThread
                      /\ pc' = [pc EXCEPT ![t] = "write_drain"]
                      /\ UNCHANGED <<dest, call, mk, guard>>
                 ELSE /\ Return(t, TRUE)
                      /\ UNCHANGED readers_w
            /\ UNCHANGED both_w
  /\ UNCHANGED <<cond_w, wb>>
  /\ UNCHANGED uservars

write_drain(t) ==
  /\ pc[t] = "write_drain" /\ lock(t)
  /\ IF readers(state) # 0
       THEN /\ readers_w' = readers_w \cup {t}
            /\ mx' = NoThread
            /\ UNCHANGED <<pc, dest, call, mk, guard>>
       ELSE /\ Return(t, TRUE)
            /\ UNCHANGED readers_w
  /\ UNCHANGED <<state, both_w, cond_w, wb>>
  /\ UNCHANGED uservars

raw_try_read(t) ==
  /\ pc[t] = "try_read" /\ lock(t)
  /\ IF ~is_writer_active(state) /\ ~at_max_readers(state)
       THEN state' = add_reader(state) /\ Return(t, TRUE)
       ELSE state' = state /\ Return(t, FALSE)
  /\ UNCHANGED <<both_w, readers_w, cond_w, wb>>
  /\ UNCHANGED uservars

\* try_write gives up whenever write() would have to wait, for a writer or
\* for readers (sections 5 and 6: it never blocks; S5: it fails while a
\* reader is held): it succeeds on the zero state word only
raw_try_write(t) ==
  /\ pc[t] = "try_write" /\ lock(t)
  /\ IF state = 0
       THEN /\ state' = set_writer_active(state)
            /\ Return(t, TRUE)
            /\ UNCHANGED wb
       ELSE /\ state' = state
            /\ Return(t, FALSE)
            /\ wb' = [wb EXCEPT ![t] = \E u \in Threads \ {t} : guard[u] = "read"]
  /\ UNCHANGED <<both_w, readers_w, cond_w>>
  /\ UNCHANGED uservars

\* ------------------------------------------------- raw layer: release halves
\* the state word and the wake-ups of unlock_read, internal mutex held
unlock_read_to ==
  /\ state' = remove_reader(state)
  /\ IF is_writer_active(state') /\ readers(state') = 0
       THEN notify_one(readers_w, readers_w') /\ UNCHANGED both_w
       ELSE IF one_below_max_readers(state')
              THEN notify_one(both_w, both_w') /\ UNCHANGED readers_w
              ELSE UNCHANGED <<both_w, readers_w>>

\* the state word and the wake-ups of unlock_write, internal mutex held
unlock_write_to ==
  /\ state' = clear_all(state)
  /\ both_w' = {}
  /\ UNCHANGED readers_w

raw_unlock_read(t) ==
  /\ pc[t] = "unlock_read" /\ lock(t)
  /\ unlock_read_to
  /\ Return(t, TRUE)
  /\ UNCHANGED <<cond_w, wb>>
  /\ UNCHANGED uservars

raw_unlock_write(t) ==
  /\ pc[t] = "unlock_write" /\ lock(t)
  /\ unlock_write_to
  /\ Return(t, TRUE)
  /\ UNCHANGED <<cond_w, wb>>
  /\ UNCHANGED uservars

\* ---------------------------------------------- raw layer: the transitions
\* slip: the release half gives the internal mutex back before the wait
release_read_then_unlock(t) ==
  /\ pc[t] = "release_read" /\ lock(t)
  /\ unlock_read_to
  /\ mx' = NoThread
  /\ pc' = [pc EXCEPT ![t] = "cond_wait"]
  /\ UNCHANGED <<cond_w, dest, call, mk, guard, wb>>
  /\ UNCHANGED uservars

\* release half of wait_from_read_to_*: the internal mutex is taken and kept
release_read(t) ==
  /\ pc[t] = "release_read" /\ lock(t)
  /\ unlock_read_to
  /\ mx' = t
  /\ pc' = [pc EXCEPT ![t] = "cond_wait"]
  /\ UNCHANGED <<cond_w, dest, call, mk, guard, wb>>
  /\ UNCHANGED uservars

\* release half of wait_from_write_to_*: the internal mutex is taken and kept
release_write(t) ==
  /\ pc[t] = "release_write" /\ lock(t)
  /\ unlock_write_to
  /\ mx' = t
  /\ pc' = [pc EXCEPT ![t] = "cond_wait"]
  /\ UNCHANGED <<cond_w, dest, call, mk, guard, wb>>
  /\ UNCHANGED uservars

\* cond.wait(state_lock): gives up the internal mutex and blocks, at once
cond_wait(t) ==
  /\ pc[t] = "cond_wait" /\ mx = t
  /\ cond_w' = cond_w \cup {t}
  /\ mx' = NoThread
  /\ pc' = [pc EXCEPT ![t] = dest[t]]
  /\ UNCHANGED <<state, both_w, readers_w, dest, call, mk, guard, wb>>
  /\ UNCHANGED uservars

\* ----------------------------------------------------------- guard layer
\* a lib.rs method `m` starts the raw call that begins at step `entry`; a
\* transition resumes at `dst` after the wait; `g` is the guard it builds
Enter(t, m, entry, dst, g) ==
  /\ Idle(t)
  /\ pc' = [pc EXCEPT ![t] = entry]
  /\ dest' = [dest EXCEPT ![t] = dst]
  /\ call' = [call EXCEPT ![t] = m]
  /\ mk' = [mk EXCEPT ![t] = g]
  /\ wb' = [wb EXCEPT ![t] = wb[t] /\ m = "try_write"]
  /\ UNCHANGED <<state, mx, both_w, readers_w, cond_w>>

\* slip: write() goes through raw.read()
write_by_raw_read(t) ==
  /\ guard[t] = "none"
  /\ Enter(t, "write", "read_from", "none", "write")
  /\ UNCHANGED guard

write(t) ==
  /\ guard[t] = "none"
  /\ Enter(t, "write", "write_from", "none", "write")
  /\ UNCHANGED guard

read(t) ==
  /\ guard[t] = "none"
  /\ Enter(t, "read", "read_from", "none", "read")
  /\ UNCHANGED guard

\* slip: try_read() asks raw.try_write()
try_read_by_raw_try_write(t) ==
  /\ guard[t] = "none"
  /\ Enter(t, "try_read", "try_write", "none", "read")
  /\ UNCHANGED guard

try_read(t) ==
  /\ guard[t] = "none"
  /\ Enter(t, "try_read", "try_read", "none", "read")
  /\ UNCHANGED guard

\* slip: try_write() goes through the blocking raw.write()
try_write_by_raw_write(t) ==
  /\ guard[t] = "none"
  /\ Enter(t, "try_write", "write_from", "none", "write")
  /\ UNCHANGED guard

\* slip: try_write() asks raw.try_read()
try_write_by_raw_try_read(t) ==
  /\ guard[t] = "none"
  /\ Enter(t, "try_write", "try_read", "none", "write")
  /\ UNCHANGED guard

try_write(t) ==
  /\ guard[t] = "none"
  /\ Enter(t, "try_write", "try_write", "none", "write")
  /\ UNCHANGED guard

\* slip: the read guard goes away without unlock_read
ReadGuard_drop_without_unlock(t) ==
  /\ guard[t] = "read"
  /\ Idle(t)
  /\ guard' = [guard EXCEPT ![t] = "none"]
  /\ UNCHANGED <<state, mx, both_w, readers_w, cond_w, pc, dest, call, mk, wb>>

\* slip: the read guard's drop calls unlock_write
ReadGuard_drop_by_unlock_write(t) ==
  /\ guard[t] = "read"
  /\ Enter(t, "drop_read", "unlock_write", "none", "none")
  /\ guard' = [guard EXCEPT ![t] = "none"]

ReadGuard_drop(t) ==
  /\ guard[t] = "read"
  /\ Enter(t, "drop_read", "unlock_read", "none", "none")
  /\ guard' = [guard EXCEPT ![t] = "none"]

WriteGuard_drop(t) ==
  /\ guard[t] = "write"
  /\ Enter(t, "drop_write", "unlock_write", "none", "none")
  /\ guard' = [guard EXCEPT ![t] = "none"]

\* slip: the read guard's wait_for_write goes for the write lock with its
\* read ticket still out
ReadGuard_wait_for_write_without_release(t) ==
  /\ guard[t] = "read"
  /\ Enter(t, "r2w", "write_from", "none", "write")
  /\ guard' = [guard EXCEPT ![t] = "none"]

\* slip: the read guard's wait_for_write re-acquires in read mode
ReadGuard_wait_for_write_by_read_to_read(t) ==
  /\ guard[t] = "read"
  /\ Enter(t, "r2w", "release_read", "read_from", "write")
  /\ guard' = [guard EXCEPT ![t] = "none"]

ReadGuard_wait_for_write(t) ==
  /\ guard[t] = "read"
  /\ Enter(t, "r2w", "release_read", "write_from", "write")
  /\ guard' = [guard EXCEPT ![t] = "none"]

\* slip: the read guard's wait_for_read releases as a writer would
ReadGuard_wait_for_read_by_write_to_read(t) ==
  /\ guard[t] = "read"
  /\ Enter(t, "r2r", "release_write", "read_from", "read")
  /\ guard' = [guard EXCEPT ![t] = "none"]

ReadGuard_wait_for_read(t) ==
  /\ guard[t] = "read"
  /\ Enter(t, "r2r", "release_read", "read_from", "read")
  /\ guard' = [guard EXCEPT ![t] = "none"]

WriteGuard_wait_for_write(t) ==
  /\ guard[t] = "write"
  /\ Enter(t, "w2w", "release_write", "write_from", "write")
  /\ guard' = [guard EXCEPT ![t] = "none"]

\* slip: the write guard's wait_for_read re-acquires in write mode
WriteGuard_wait_for_read_by_write_to_write(t) ==
  /\ guard[t] = "write"
  /\ Enter(t, "w2r", "release_write", "write_from", "read")
  /\ guard' = [guard EXCEPT ![t] = "none"]

\* slip: the write guard's wait_for_read releases as a reader would
WriteGuard_wait_for_read_by_read_to_read(t) ==
  /\ guard[t] = "write"
  /\ Enter(t, "w2r", "release_read", "read_from", "read")
  /\ guard' = [guard EXCEPT ![t] = "none"]

WriteGuard_wait_for_read(t) ==
  /\ guard[t] = "write"
  /\ Enter(t, "w2r", "release_write", "read_from", "read")
  /\ guard' = [guard EXCEPT ![t] = "none"]

\* ------------------------------------------------ guard layer: mapped guards
\* the SharedMutex objects a caller can hand to recover: the one every guard
\* of this model comes from, and a second one
Locks == {"mutex", "other"}

\* RawSharedMutex::is: both references name the same lock object
is(a, b) == a = b

\* SharedMutex{Read,Write}Guard::new(m): a full guard over m
ReadGuard_new(m) == IF m = "mutex" THEN "read" ELSE "read_of_other"
WriteGuard_new(m) == IF m = "mutex" THEN "write" ELSE "write_of_other"

\* mem::forget(self): the consumed guard runs no drop, and the caller owns g
forget_into(t, g) ==
  /\ Idle(t)
  /\ guard' = [guard EXCEPT ![t] = g]
  /\ UNCHANGED <<state, mx, both_w, readers_w, cond_w, pc, dest, call, mk, wb>>

\* slip: into_mapped without mem::forget, the consumed guard's drop runs
ReadGuard_into_mapped_without_forget(t) ==
  /\ guard[t] = "read"
  /\ Enter(t, "into_mapped", "unlock_read", "none", "mapped_read")
  /\ guard' = [guard EXCEPT ![t] = "none"]

ReadGuard_into_mapped(t) ==
  /\ guard[t] = "read"
  /\ forget_into(t, "mapped_read")

WriteGuard_into_mapped(t) ==
  /\ guard[t] = "write"
  /\ forget_into(t, "mapped_write")

MappedReadGuard_drop(t) ==
  /\ guard[t] = "mapped_read"
  /\ Enter(t, "drop_mapped_read", "unlock_read", "none", "none")
  /\ guard' = [guard EXCEPT ![t] = "none"]

MappedWriteGuard_drop(t) ==
  /\ guard[t] = "mapped_write"
  /\ Enter(t, "drop_mapped_write", "unlock_write", "none", "none")
  /\ guard' = [guard EXCEPT ![t] = "none"]

\* Ok: self is forgotten and a mapped guard over the same lock is built;
\* Err: self is handed back
MappedReadGuard_result_map(t, ok) ==
  /\ guard[t] = "mapped_read"
  /\ IF ok THEN forget_into(t, "mapped_read") ELSE forget_into(t, guard[t])

\* result_map(..).ok(): on Err the pair holding self is dropped
MappedReadGuard_option_map(t, some) ==
  IF some THEN MappedReadGuard_result_map(t, TRUE) ELSE MappedReadGuard_drop(t)

MappedReadGuard_map(t) == MappedReadGuard_option_map(t, TRUE)

\* slip: recover trusts the mutex it is handed
MappedReadGuard_recover_unchecked(t, m) ==
  /\ guard[t] = "mapped_read"
  /\ forget_into(t, ReadGuard_new(m))

MappedReadGuard_recover(t, m) ==
  /\ guard[t] = "mapped_read"
  /\ IF is("mutex", m)
       THEN forget_into(t, ReadGuard_new(m))
       ELSE forget_into(t, guard[t])

MappedWriteGuard_result_map(t, ok) ==
  /\ guard[t] = "mapped_write"
  /\ IF ok THEN forget_into(t, "mapped_write") ELSE forget_into(t, guard[t])

MappedWriteGuard_option_map(t, some) ==
  IF some THEN MappedWriteGuard_result_map(t, TRUE) ELSE MappedWriteGuard_drop(t)

MappedWriteGuard_map(t) == MappedWriteGuard_option_map(t, TRUE)

MappedWriteGuard_recover(t, m) ==
  /\ guard[t] = "mapped_write"
  /\ IF is("mutex", m)
       THEN forget_into(t, WriteGuard_new(m))
       ELSE forget_into(t, guard[t])

\* cond.notify_one() from user code
cond_notify_one(t) ==
  /\ Idle(t)
  /\ notify_one(cond_w, cond_w')
  /\ UNCHANGED <<state, mx, both_w, readers_w, pc, dest, call, mk, guard, wb>>

\* ------------------------------------------------------- raw layer: steps
RawAcquire ==
  \/ \E t \in Threads : read_from(t)
  \/ \E t \in Threads : write_from(t)
  \/ \E t \in Threads : write_drain(t)

RawRelease ==
  \/ \E t \in Threads : raw_unlock_read(t)
  \/ \E t \in Threads : raw_unlock_write(t)

RawTry ==
  \/ \E t \in Threads : raw_try_read(t)
  \/ \E t \in Threads : raw_try_write(t)

RawTransition ==
  \/ \E t \in Threads : release_read(t)
  \/ \E t \in Threads : release_write(t)
  \/ \E t \in Threads : cond_wait(t)

\* ---------------------------------------- free-running clients of one lock
InitLock(T) ==
  /\ state = 0
  /\ mx = NoThread
  /\ both_w = {} /\ readers_w = {} /\ cond_w = {}
  /\ pc = [t \in T |-> "idle"]
  /\ dest = [t \in T |-> "none"]
  /\ call = [t \in T |-> "none"]
  /\ mk = [t \in T |-> "none"]
  /\ guard = [t \in T |-> "none"]
  /\ wb = [t \in T |-> FALSE]

InitProg(T) ==
  /\ prog = [t \in T |-> 0]
  /\ iter = [t \in T |-> 0]
  /\ data = 0
  /\ tmp = [t \in T |-> 0]
  /\ before = [t \in T |-> 0]
  /\ after = [t \in T |-> 0]

InitUser(T) == InitProg(T) /\ other = 0

Init == InitLock(1..NumThreads) /\ InitUser(1..NumThreads)

Client ==
  \/ \E t \in Threads : write(t) /\ UNCHANGED uservars
  \/ \E t \in Threads : read(t) /\ UNCHANGED uservars
  \/ \E t \in Threads : try_read(t) /\ UNCHANGED uservars
  \/ \E t \in Threads : try_write(t) /\ UNCHANGED uservars
  \/ \E t \in Threads : ReadGuard_drop(t) /\ UNCHANGED uservars
  \/ \E t \in Threads : WriteGuard_drop(t) /\ UNCHANGED uservars
  \/ \E t \in Threads : ReadGuard_wait_for_write(t) /\ UNCHANGED uservars
  \/ \E t \in Threads : ReadGuard_wait_for_read(t) /\ UNCHANGED uservars
  \/ \E t \in Threads : WriteGuard_wait_for_write(t) /\ UNCHANGED uservars
  \/ \E t \in Threads : WriteGuard_wait_for_read(t) /\ UNCHANGED uservars
  \/ \E t \in Threads : cond_notify_one(t) /\ UNCHANGED <<guard, uservars>>

Next ==
  \/ Client
  \/ RawAcquire
  \/ RawRelease
  \/ RawTry
  \/ RawTransition
  \/ \E t \in Threads : SpuriousWake(t)

Spec == Init /\ [][Next]_vars

\* ------------------------------------------- test_simple_multithreaded
\* each worker runs the closure NumIters times:
\*   let before = *mutex.read().unwrap();
\*   *mutex.write().unwrap() += 1;
\*   let after = *mutex.read().unwrap();
\*   assert!(before < after)
\* prog is the statement reached; the temporary guard of a statement is
\* dropped at its end.  `+= 1` is a load and a store through the guard.
At(t, k) == prog[t] = k /\ Idle(t)

SerialInit == InitLock(1..NumWorkers) /\ InitUser(1..NumWorkers)

Goto(t, k) == prog' = [prog EXCEPT ![t] = k]

serial_read_before(t) ==
  /\ At(t, 0) /\ iter[t] < NumIters
  /\ read(t) /\ Goto(t, 1)
  /\ UNCHANGED <<iter, data, other, tmp, before, after>>

serial_sample_before(t) ==
  /\ At(t, 1)
  /\ before' = [before EXCEPT ![t] = data]
  /\ ReadGuard_drop(t) /\ Goto(t, 2)
  /\ UNCHANGED <<iter, data, other, tmp, after>>

serial_write(t) ==
  /\ At(t, 2)
  /\ write(t) /\ Goto(t, 3)
  /\ UNCHANGED <<iter, data, other, tmp, before, after>>

serial_load(t) ==
  /\ At(t, 3)
  /\ tmp' = [tmp EXCEPT ![t] = data]
  /\ Goto(t, 4)
  /\ UNCHANGED <<iter, data, other, before, after>>
  /\ UNCHANGED lockvars

serial_store(t) ==
  /\ At(t, 4)
  /\ data' = tmp[t] + 1
  /\ tmp' = [tmp EXCEPT ![t] = 0]
  /\ WriteGuard_drop(t) /\ Goto(t, 5)
  /\ UNCHANGED <<iter, before, after, other>>

serial_read_after(t) ==
  /\ At(t, 5)
  /\ read(t) /\ Goto(t, 6)
  /\ UNCHANGED <<iter, data, other, tmp, before, after>>

serial_sample_after(t) ==
  /\ At(t, 6)
  /\ after' = [after EXCEPT ![t] = data]
  /\ ReadGuard_drop(t) /\ Goto(t, 7)
  /\ UNCHANGED <<iter, data, other, tmp, before>>

\* statement 7 is the assert!; after it the closure ends
serial_end(t) ==
  /\ At(t, 7)
  /\ iter' = [iter EXCEPT ![t] = iter[t] + 1]
  /\ before' = [before EXCEPT ![t] = 0]
  /\ after' = [after EXCEPT ![t] = 0]
  /\ Goto(t, 0)
  /\ UNCHANGED <<data, other, tmp>>
  /\ UNCHANGED lockvars

SerialNext ==
  \/ \E t \in Threads : serial_read_before(t)
  \/ \E t \in Threads : serial_sample_before(t)
  \/ \E t \in Threads : serial_write(t)
  \/ \E t \in Threads : serial_load(t)
  \/ \E t \in Threads : serial_store(t)
  \/ \E t \in Threads : serial_read_after(t)
  \/ \E t \in Threads : serial_sample_after(t)
  \/ \E t \in Threads : serial_end(t)
  \/ RawAcquire
  \/ RawRelease
  \/ \E t \in Threads : SpuriousWake(t)

SerialSpec == SerialInit /\ [][SerialNext]_vars

\* ------------------------------------ one writer among arriving readers
\* thread 1 takes and gives back the write lock; the others take and give
\* back read locks for ever
Writer == 1

PrefInit == InitLock(1..(NumReaders + 1)) /\ InitUser(1..(NumReaders + 1))

pref_write == write(Writer) /\ UNCHANGED uservars
pref_write_done == WriteGuard_drop(Writer) /\ UNCHANGED uservars
pref_read(t) == t # Writer /\ read(t) /\ UNCHANGED uservars
pref_read_done(t) == t # Writer /\ ReadGuard_drop(t) /\ UNCHANGED uservars

\* the raw step a thread is at, whichever it is
RawStep(t) ==
  \/ read_from(t)
  \/ write_from(t)
  \/ write_drain(t)
  \/ raw_unlock_read(t)
  \/ raw_unlock_write(t)
  \/ release_read(t)
  \/ release_write(t)
  \/ cond_wait(t)

PrefNext ==
  \/ pref_write
  \/ pref_write_done
  \/ \E t \in Threads : pref_read(t)
  \/ \E t \in Threads : pref_read_done(t)
  \/ RawAcquire
  \/ RawRelease
  \/ \E t \in Threads : SpuriousWake(t)

\* every thread inside a raw call is scheduled, and every read-holder gives
\* its guard back; nothing obliges a reader to arrive or a wait to end early
PrefFairness ==
  /\ \A t \in 1..(NumReaders + 1) : WF_vars(RawStep(t))
  /\ \A t \in 1..(NumReaders + 1) : WF_vars(pref_read_done(t))

PrefSpec == PrefInit /\ [][PrefNext]_vars /\ PrefFairness

\* ------------------------------------------------------ test_simple_waiting
\* thread 1 is the scope's body; threads 2..5 are the four closures, each
\* started just before the transition it is to wake:
\*   mutex.write(); drop; cond.notify_one()
\* prog of a closure: 0 not started, 1 started, 2 owns the guard, 3 about
\* to notify, 4 ended.  prog of the body: the transitions made so far.
Body == 1
Closures == 2..5

ChainInit == InitLock(1..5) /\ InitUser(1..5)

Spawn(t, k, h) ==
  /\ prog' = [prog EXCEPT ![t] = k, ![h] = 1]
  /\ UNCHANGED <<iter, data, other, tmp, before, after>>

chain_write ==
  /\ At(Body, 0)
  /\ write(Body) /\ Goto(Body, 1)
  /\ UNCHANGED <<iter, data, other, tmp, before, after>>

chain_write_to_read ==
  /\ At(Body, 1)
  /\ WriteGuard_wait_for_read(Body) /\ Spawn(Body, 2, 2)

chain_read_to_read ==
  /\ At(Body, 2)
  /\ ReadGuard_wait_for_read(Body) /\ Spawn(Body, 3, 3)

chain_read_to_write ==
  /\ At(Body, 3)
  /\ ReadGuard_wait_for_write(Body) /\ Spawn(Body, 4, 4)

chain_write_to_write ==
  /\ At(Body, 4)
  /\ WriteGuard_wait_for_write(Body) /\ Spawn(Body, 5, 5)

chain_end ==
  /\ At(Body, 5)
  /\ WriteGuard_drop(Body) /\ Goto(Body, 6)
  /\ UNCHANGED <<iter, data, other, tmp, before, after>>

closure_write(h) ==
  /\ h \in Closures /\ At(h, 1)
  /\ write(h) /\ Goto(h, 2)
  /\ UNCHANGED <<iter, data, other, tmp, before, after>>

closure_drop(h) ==
  /\ h \in Closures /\ At(h, 2)
  /\ WriteGuard_drop(h) /\ Goto(h, 3)
  /\ UNCHANGED <<iter, data, other, tmp, before, after>>

closure_notify(h) ==
  /\ h \in Closures /\ At(h, 3)
  /\ cond_notify_one(h) /\ Goto(h, 4)
  /\ UNCHANGED <<guard, iter, data, other, tmp, before, after>>

BodyStep ==
  \/ chain_write
  \/ chain_write_to_read
  \/ chain_read_to_read
  \/ chain_read_to_write
  \/ chain_write_to_write
  \/ chain_end

ClosureStep(h) ==
  \/ closure_write(h)
  \/ closure_drop(h)
  \/ closure_notify(h)

ChainNext ==
  \/ BodyStep
  \/ \E h \in Threads : closure_write(h)
  \/ \E h \in Threads : closure_drop(h)
  \/ \E h \in Threads : closure_notify(h)
  \/ RawAcquire
  \/ \E t \in Threads : raw_unlock_write(t)
  \/ RawTransition
  \/ \E t \in Threads : SpuriousWake(t)

\* every thread is scheduled; no wait is obliged to end without a notification
ChainFairness ==
  /\ WF_vars(BodyStep)
  /\ \A t \in 1..5 : WF_vars(ClosureStep(t))
  /\ \A t \in 1..5 : WF_vars(RawStep(t))

ChainSpec == ChainInit /\ [][ChainNext]_vars /\ ChainFairness

\* ----------------------------------------------------------- test_try_locking
\* each thread runs the test body until it has obtained NumIters guards:
\*   mutex.try_read()   (a guard, when one comes back, is dropped at once)
\*   mutex.try_write()  (likewise)
\* iter counts the guards the thread has obtained
TryInit == InitLock(1..NumWorkers) /\ InitUser(1..NumWorkers)

trylock_try_read(t) ==
  /\ At(t, 0) /\ iter[t] < NumIters
  /\ try_read(t) /\ Goto(t, 1)
  /\ UNCHANGED <<iter, data, other, tmp, before, after>>

trylock_read_result(t) ==
  /\ At(t, 1)
  /\ IF guard[t] = "read"
       THEN /\ ReadGuard_drop(t)
            /\ iter' = [iter EXCEPT ![t] = iter[t] + 1]
       ELSE UNCHANGED <<lockvars, iter>>
  /\ Goto(t, 2)
  /\ UNCHANGED <<data, other, tmp, before, after>>

trylock_try_write(t) ==
  /\ At(t, 2)
  /\ try_write(t) /\ Goto(t, 3)
  /\ UNCHANGED <<iter, data, other, tmp, before, after>>

trylock_write_result(t) ==
  /\ At(t, 3)
  /\ IF guard[t] = "write"
       THEN /\ WriteGuard_drop(t)
            /\ iter' = [iter EXCEPT ![t] = iter[t] + 1]
       ELSE UNCHANGED <<lockvars, iter>>
  /\ Goto(t, 0)
  /\ UNCHANGED <<data, other, tmp, before, after>>

TryNext ==
  \/ \E t \in Threads : trylock_try_read(t)
  \/ \E t \in Threads : trylock_read_result(t)
  \/ \E t \in Threads : trylock_try_write(t)
  \/ \E t \in Threads : trylock_write_result(t)
  \/ RawTry
  \/ RawRelease

TrySpec == TryInit /\ [][TryNext]_vars

\* ------------------------------------------------- readers at full capacity
\* test_locking_multithreaded with the small cap (scenario S6): the pool has
\* two threads more than the readers field can count, and each thread runs
\* reader and writer closures one after the other
SatInit == InitLock(1..(MAX_READERS + 2)) /\ InitUser(1..(MAX_READERS + 2))

sat_read(t) == read(t) /\ UNCHANGED uservars
sat_read_done(t) == ReadGuard_drop(t) /\ UNCHANGED uservars
sat_write(t) == write(t) /\ UNCHANGED uservars
sat_write_done(t) == WriteGuard_drop(t) /\ UNCHANGED uservars

SatNext ==
  \/ \E t \in Threads : sat_read(t)
  \/ \E t \in Threads : sat_read_done(t)
  \/ \E t \in Threads : sat_write(t)
  \/ \E t \in Threads : sat_write_done(t)
  \/ RawAcquire
  \/ RawRelease
  \/ \E t \in Threads : SpuriousWake(t)

SatSpec == SatInit /\ [][SatNext]_vars

\* ------------------------------------------- test_mapping, test_map_recover
\* each worker, over and over: takes the lock in either mode, may wait on
\* `cond` with the full guard, maps it
\*   mutex.write().unwrap().into_mapped().map(|v| &mut v[0])
\* goes on through result_map and option_map, hands the mapped guard to
\* recover, with the guard's own mutex or with the second one, and gives the
\* lock back. The second SharedMutex is in any state.
MapInit ==
  /\ InitLock(1..NumWorkers) /\ InitProg(1..NumWorkers)
  /\ other \in 0..(WordMod - 1)

MapRest == UNCHANGED <<iter, data, tmp, before, after, other>>

map_read(t) == At(t, 0) /\ read(t) /\ Goto(t, 1) /\ MapRest
map_write(t) == At(t, 0) /\ write(t) /\ Goto(t, 1) /\ MapRest

map_wait(t) ==
  /\ At(t, 1)
  /\ \/ ReadGuard_wait_for_read(t)
     \/ ReadGuard_wait_for_write(t)
     \/ WriteGuard_wait_for_read(t)
     \/ WriteGuard_wait_for_write(t)
  /\ UNCHANGED prog /\ MapRest

map_notify(t) == cond_notify_one(t) /\ UNCHANGED <<guard, prog>> /\ MapRest

map_drop(t) ==
  /\ At(t, 1)
  /\ ReadGuard_drop(t) \/ WriteGuard_drop(t)
  /\ Goto(t, 0) /\ MapRest

map_into_mapped(t) ==
  /\ At(t, 1)
  /\ ReadGuard_into_mapped(t) \/ WriteGuard_into_mapped(t)
  /\ Goto(t, 2) /\ MapRest

map_map(t) ==
  /\ At(t, 2)
  /\ MappedReadGuard_map(t) \/ MappedWriteGuard_map(t)
  /\ Goto(t, 3) /\ MapRest

map_result_map(t) ==
  /\ At(t, 3)
  /\ \E ok \in BOOLEAN :
       MappedReadGuard_result_map(t, ok) \/ MappedWriteGuard_result_map(t, ok)
  /\ Goto(t, 4) /\ MapRest

\* Some(guard): the program goes on with it; None: the lock is given back
map_option_map(t) ==
  /\ At(t, 4)
  /\ \E some \in BOOLEAN :
       /\ MappedReadGuard_option_map(t, some) \/ MappedWriteGuard_option_map(t, some)
       /\ Goto(t, IF some THEN 5 ELSE 0)
  /\ MapRest

\* write_map.recover(&mutex): the program goes on with the result
map_recover(t) ==
  /\ At(t, 5)
  /\ MappedReadGuard_recover(t, "mutex") \/ MappedWriteGuard_recover(t, "mutex")
  /\ Goto(t, 1) /\ MapRest

\* recover with a reference to the second SharedMutex
map_recover_other(t) ==
  /\ At(t, 5)
  /\ MappedReadGuard_recover(t, "other") \/ MappedWriteGuard_recover(t, "other")
  /\ Goto(t, 6) /\ MapRest

map_mapped_drop(t) ==
  /\ At(t, 6)
  /\ MappedReadGuard_drop(t) \/ MappedWriteGuard_drop(t)
  /\ Goto(t, 0) /\ MapRest

MapNext ==
  \/ \E t \in Threads : map_read(t)
  \/ \E t \in Threads : map_write(t)
  \/ \E t \in Threads : map_wait(t)
  \/ \E t \in Threads : map_notify(t)
  \/ \E t \in Threads : map_drop(t)
  \/ \E t \in Threads : map_into_mapped(t)
  \/ \E t \in Threads : map_map(t)
  \/ \E t \in Threads : map_result_map(t)
  \/ \E t \in Threads : map_option_map(t)
  \/ \E t \in Threads : map_recover(t)
  \/ \E t \in Threads : map_recover_other(t)
  \/ \E t \in Threads : map_mapped_drop(t)
  \/ RawAcquire
  \/ RawRelease
  \/ RawTransition
  \/ \E t \in Threads : SpuriousWake(t)

MapSpec == MapInit /\ [][MapNext]_vars

\* ------------------------------------- read guards upgraded at the same time
\* the read -> write step of test_simple_waiting made by several threads on
\* one Condvar: each worker, NumIters times,
\*   let guard = mutex.read().unwrap();
\*   let guard = guard.wait_for_write(&cond).unwrap();
\*   drop(guard);
\* while one more thread keeps calling cond.notify_one()
Waker == NumWorkers + 1

UpgradeInit == InitLock(1..(NumWorkers + 1)) /\ InitUser(1..(NumWorkers + 1))

upgrade_read(t) ==
  /\ t # Waker
  /\ At(t, 0) /\ iter[t] < NumIters
  /\ read(t) /\ Goto(t, 1)
  /\ UNCHANGED <<iter, data, other, tmp, before, after>>

upgrade_wait_for_write(t) ==
  /\ At(t, 1)
  /\ ReadGuard_wait_for_write(t) /\ Goto(t, 2)
  /\ UNCHANGED <<iter, data, other, tmp, before, after>>

upgrade_drop(t) ==
  /\ At(t, 2)
  /\ WriteGuard_drop(t) /\ Goto(t, 0)
  /\ iter' = [iter EXCEPT ![t] = iter[t] + 1]
  /\ UNCHANGED <<data, other, tmp, before, after>>

upgrade_notify ==
  /\ cond_w # {}
  /\ cond_notify_one(Waker)
  /\ UNCHANGED <<guard, uservars>>

UpgradeStep(t) ==
  \/ upgrade_read(t)
  \/ upgrade_wait_for_write(t)
  \/ upgrade_drop(t)

UpgradeNext ==
  \/ \E t \in Threads : upgrade_read(t)
  \/ \E t \in Threads : upgrade_wait_for_write(t)
  \/ \E t \in Threads : upgrade_drop(t)
  \/ upgrade_notify
  \/ \E t \in Threads : write_from(t)
  \/ \E t \in Threads : write_drain(t)
  \/ \E t \in Threads : read_from(t)
  \/ \E t \in Threads : raw_unlock_write(t)
  \/ \E t \in Threads : release_read(t)
  \/ \E t \in Threads : cond_wait(t)
  \/ \E t \in Threads : SpuriousWake(t)

\* every thread is scheduled and the waker goes on notifying; no wait is
\* obliged to end without a notification
UpgradeFairness ==
  /\ \A t \in 1..(NumWorkers + 1) : WF_vars(UpgradeStep(t))
  /\ \A t \in 1..(NumWorkers + 1) : WF_vars(RawStep(t))
  /\ WF_vars(upgrade_notify)

UpgradeSpec == UpgradeInit /\ [][UpgradeNext]_vars /\ UpgradeFairness

\* ------------------------------------------------------------ vocabulary
TransitionCalls == {"r2r", "r2w", "w2r", "w2w"}
TryCalls == {"try_read", "try_write"}
\* the release half is done and cond.wait has not begun
InGap(t) == pc[t] = "cond_wait"
\* the tickets the state word has to account for: a guard that is owned, a
\* guard given up whose raw release has not run yet, an announced writer
CountedReaders ==
  {t \in Threads : \/ guard[t] \in {"read", "mapped_read"}
                   \/ pc[t] \in {"unlock_read", "release_read"}}
CountedWriters ==
  {t \in Threads : \/ guard[t] \in {"write", "mapped_write"}
                   \/ pc[t] \in {"unlock_write", "release_write", "write_drain"}}
Acquires(t) == guard[t] = "none" /\ guard'[t] # "none"
Returns(t) == call[t] # "none" /\ call'[t] = "none"
ChainDone == At(Body, 6) /\ \A h \in Closures : At(h, 4)
SerialDone == \A t \in Threads : iter[t] = NumIters /\ At(t, 0)

ReadHolder(t) == guard[t] = "read"
WriteHolder(t) == guard[t] = "write"
ReadHolders == {t \in Threads : ReadHolder(t)}
WriteHolders == {t \in Threads : WriteHolder(t)}
WantsRead(t) == call[t] \in {"read", "r2r", "w2r"} /\ pc[t] = "read_from"
WantsWrite(t) == call[t] \in {"write", "r2w", "w2w"} /\ pc[t] \in {"write_from", "write_drain"}
\* the wait predicate of a blocked thread no longer holds
Stranded(t) ==
  \/ /\ t \in both_w /\ pc[t] = "read_from"
     /\ ~is_writer_active(state) /\ ~at_max_readers(state)
  \/ /\ t \in both_w /\ pc[t] = "write_from"
     /\ ~is_writer_active(state)
  \/ /\ t \in readers_w /\ pc[t] = "write_drain"
     /\ readers(state) = 0
\* every ticket has been given back and no thread is inside a call it can
\* go on with
Quiescent ==
  /\ CountedReaders \cup CountedWriters = {}
  /\ \A t \in Threads : Idle(t) \/ Blocked(t)
FullGuards == {"read", "write"}
MappedGuards == {"mapped_read", "mapped_write"}
ReadGuards == {"read", "mapped_read"}
\* a lib.rs method that runs no raw call turns one guard into another
Converts(t) ==
  /\ Idle(t) /\ pc'[t] = "idle"
  /\ guard[t] # "none" /\ guard'[t] # "none"
  /\ prog'[t] # prog[t]
\* this step runs the release of t's read ticket: unlock_read from a drop,
\* or the release half of read->read or read->write
ReleasesRead(t) ==
  \/ call[t] \in {"drop_read", "drop_mapped_read"} /\ Returns(t)
  \/ call[t] \in {"r2r", "r2w"} /\ pc[t] # "cond_wait" /\ pc'[t] = "cond_wait"
\* this step runs the release of t's write ticket: unlock_write from a drop,
\* or the release half of write->read or write->write
ReleasesWrite(t) ==
  \/ call[t] \in {"drop_write", "drop_mapped_write"} /\ Returns(t)
  \/ call[t] \in {"w2r", "w2w"} /\ pc[t] # "cond_wait" /\ pc'[t] = "cond_wait"
\* W2 is W after one notify_one
OneWoken(W, W2) == IF W = {} THEN W2 = {} ELSE W2 \subseteq W /\ Cardinality(W2) = Cardinality(W) - 1
UpgradeDone == \A t \in Threads \ {Waker} : iter[t] = NumIters /\ At(t, 0)

\* C1: reader/writer exclusion. While some thread owns a write guard the
\* readers field is 0 and no thread owns a read guard.
C1_ReaderWriterExclusion ==
  WriteHolders # {} => readers(state) = 0 /\ ReadHolders = {}

\* a writer holds while a would-be reader waits on `both`
C1_Witness ==
  \E t, u \in Threads : WriteHolder(t) /\ WantsRead(u) /\ u \in both_w

\* C2: writer/writer exclusion. At most one thread owns a write guard, and
\* it owns it with the writer_active flag set.
C2_WriterWriterExclusion ==
  /\ Cardinality(WriteHolders) <= 1
  /\ WriteHolders # {} => is_writer_active(state)

\* a writer holds while a second writer waits on `both`
C2_Witness ==
  \E t, u \in Threads : WriteHolder(t) /\ WantsWrite(u) /\ u \in both_w

\* C3: serialised increments. In test_simple_multithreaded every closure
\* reaches its assertion with before < after, and when all closures have
\* ended the counter equals the number of increments performed.
C3_SerialisedIncrements ==
  /\ \A t \in Threads : At(t, 7) => before[t] < after[t]
  /\ SerialDone => data = NumWorkers * NumIters

\* all workers ended, each having incremented the counter
C3_Witness == SerialDone /\ data > 1

\* C4: writer preference. From a state with writer_active set no step raises
\* the readers field, and a thread becomes a read-holder only by a step that
\* starts and ends with writer_active clear.
C4_WriterPreference ==
  [][/\ is_writer_active(state) => readers(state') <= readers(state)
     /\ \A t \in Threads :
          Acquires(t) /\ guard'[t] = "read"
            => ~is_writer_active(state) /\ ~is_writer_active(state')]_vars

\* a writer has announced and waits for a reader to drain while a would-be
\* reader waits on `both`
C4_Witness ==
  \E w, u \in Threads :
    /\ pc[w] = "write_drain" /\ w \in readers_w /\ readers(state) > 0
    /\ WantsRead(u) /\ u \in both_w

\* C6: no lost notification in a transition. Between the release half of a
\* transition and the start of its wait on cond the caller holds the
\* internal mutex, the state word does not change and no other thread
\* acquires the lock: whoever acquires after the release finds the caller
\* waiting on cond.
C6_NoLostNotification ==
  /\ [](\A t \in Threads : InGap(t) => mx = t)
  /\ [][\A t \in Threads :
         InGap(t) => /\ state' = state
                     /\ \A u \in Threads \ {t} : ~Acquires(u)]_vars

\* a caller is between release and wait while another thread wants the lock
C6_Witness ==
  \E t, u \in Threads :
    /\ InGap(t) /\ u # t /\ ~Blocked(u)
    /\ pc[u] \in {"read_from", "write_from", "try_read", "try_write"}

\* C8: transition equivalence. A caller that has released in a transition
\* owns no guard, and the state word counts exactly the tickets of the other
\* threads, as after unlock_read or unlock_write; when the transition
\* returns the caller is a read-holder counted in the readers field with
\* writer_active clear (r2r, w2r), or the write-holder with the state word
\* equal to WRITER_ACTIVE (r2w, w2w).
C8_TransitionEquivalence ==
  /\ [](\A t \in Threads :
         call[t] \in TransitionCalls /\ pc[t] \notin {"release_read", "release_write"}
           => /\ guard[t] = "none"
              /\ readers(state) = Cardinality(CountedReaders)
              /\ is_writer_active(state) <=> CountedWriters # {}
              /\ t \in cond_w => t \notin CountedReaders \cup CountedWriters)
  /\ [][\A t \in Threads :
         Returns(t) /\ call[t] \in TransitionCalls
           => IF call[t] \in {"r2r", "w2r"}
                THEN /\ guard'[t] = "read"
                     /\ ~is_writer_active(state')
                     /\ readers(state') = Cardinality(CountedReaders) + 1
                ELSE /\ guard'[t] = "write"
                     /\ state' = WRITER_ACTIVE]_vars

\* a caller is blocked on cond in a transition while another thread has
\* acquired the write lock
C8_Witness ==
  \E t, u \in Threads :
    /\ call[t] \in TransitionCalls /\ t \in cond_w
    /\ WriteHolder(u)

C5_WriterNotStarved ==
  /\ (call[Writer] = "write") ~> WriteHolder(Writer)
  /\ [][pc[Writer] = "write_drain" => CountedReaders' \subseteq CountedReaders]_vars

\* the writer has announced, one reader is still holding and another is
\* held back on `both`
C5_Witness ==
  /\ pc[Writer] = "write_drain" /\ Writer \in readers_w
  /\ \E t, u \in Threads : ReadHolder(t) /\ WantsRead(u) /\ u \in both_w

\* C7: the condvar chain completes. In test_simple_waiting the body makes
\* its four transitions and gives the lock back, and every closure ends.
C7_ChainCompletes == <>ChainDone

\* the body is through its four transitions and all four closures have ended
C7_Witness == ChainDone /\ state = 0

\* C11: try on a free lock succeeds. The state word is zero exactly when no
\* ticket is outstanding; a try_read that returns from the zero state word
\* returns the read guard with readers = 1, a try_write the write guard with
\* the state word equal to WRITER_ACTIVE; and the release of the only ticket
\* leaves the state word zero, so that the next try succeeds again.
C11_TryOnFreeLock ==
  /\ [](state = 0 <=> CountedReaders \cup CountedWriters = {})
  /\ [][\A t \in Threads :
         /\ Returns(t) /\ call[t] = "try_read" /\ state = 0
              => guard'[t] = "read" /\ state' = 1
         /\ Returns(t) /\ call[t] = "try_write" /\ state = 0
              => guard'[t] = "write" /\ state' = WRITER_ACTIVE
         /\ Returns(t) /\ call[t] \in {"drop_read", "drop_write"}
                       /\ CountedReaders \cup CountedWriters = {t}
              => state' = 0]_vars

\* a thread owns the write guard from try_write after it obtained and gave
\* back a read guard from try_read, all other threads holding nothing
C11_Witness ==
  \E t \in Threads :
    /\ At(t, 3) /\ WriteHolder(t) /\ iter[t] = 1
    /\ state = WRITER_ACTIVE

\* C12: reader capacity. The read tickets outstanding never outnumber
\* MAX_READERS, and a step that adds a reader to the state word starts with
\* the readers field below its maximum and leaves the writer_active flag as
\* it was: the count does not carry into the flag.
C12_ReaderCapacity ==
  /\ [](Cardinality(CountedReaders) <= MAX_READERS)
  /\ [][state' = add_reader(state)
         => /\ ~at_max_readers(state)
            /\ readers(state') = readers(state) + 1
            /\ is_writer_active(state') <=> is_writer_active(state)]_vars

\* the readers field is at its maximum, no writer is about, and a further
\* reader waits on `both`
C12_Witness ==
  /\ at_max_readers(state) /\ ~is_writer_active(state)
  /\ \E u \in Threads : WantsRead(u) /\ u \in both_w

\* C13: saturated readers. A read() that runs with the readers field at its
\* maximum blocks on `both` and obtains nothing; an unlock_read that runs at
\* the maximum with several readers blocked takes exactly one of them off
\* `both`, leaves the others blocked and frees exactly one place.
C13_SaturatedReaders ==
  [][\A t \in Threads :
       /\ pc[t] = "read_from" /\ ~Blocked(t) /\ at_max_readers(state)
            /\ (Returns(t) \/ t \in both_w')
            => t \in both_w' /\ guard'[t] = "none" /\ state' = state
       /\ Returns(t) /\ call[t] = "drop_read"
            /\ at_max_readers(state) /\ ~is_writer_active(state)
            /\ Cardinality(both_w) >= 2
            => /\ both_w' \subseteq both_w
               /\ Cardinality(both_w') = Cardinality(both_w) - 1
               /\ readers(state') = MAX_READERS - 1]_vars

\* after a release at the maximum one blocked reader has been woken and can
\* take the freed place while another is still blocked
C13_Witness ==
  /\ readers(state) = MAX_READERS - 1 /\ Cardinality(CountedReaders) = MAX_READERS - 1
  /\ \E u, v \in Threads :
       /\ u # v
       /\ WantsRead(u) /\ ~Blocked(u)
       /\ WantsRead(v) /\ v \in both_w

\* C20: no stranded waiter. Never have all tickets been given back, with no
\* thread able to go on, while a thread is still blocked on `both` or
\* `readers` although its wait predicate is false.
C20_NoStrandedWaiter ==
  ~(Quiescent /\ \E t \in Threads : Stranded(t))

\* C14: balanced release in the guard layer. The state word counts exactly
\* the tickets that are out: one reader per read guard, full or mapped, or
\* per started read release, and the flag for exactly one write guard or
\* announced writer; a method that turns a guard into another one without
\* a raw call (into_mapped, map, option_map, result_map, recover) leaves the
\* state word alone and keeps the mode, so the guard it hands back is the
\* one release that is left.
C14_BalancedRelease ==
  /\ [](/\ readers(state) = Cardinality(CountedReaders)
        /\ is_writer_active(state) <=> CountedWriters # {}
        /\ Cardinality(CountedWriters) <= 1)
  /\ [][\A t \in Threads :
          Converts(t) => /\ state' = state
                         /\ guard'[t] \in ReadGuards <=> guard[t] \in ReadGuards]_vars

\* a thread has been through into_mapped, map, result_map, option_map and a
\* refused recover and still owns the one read ticket, while another thread
\* waits on `cond` in a transition
C14_Witness ==
  \E t, u \in Threads :
    /\ At(t, 6) /\ guard[t] = "mapped_read" /\ readers(state) = 1
    /\ u \in cond_w /\ call[u] \in TransitionCalls

\* C15: recover checks lock identity. Handed the mutex its guard came from,
\* recover returns the full guard of the same mode; handed the second
\* mutex it returns the mapped guard it was called on, starts no raw call,
\* and leaves the state words of both locks as they were.
C15_RecoverChecksIdentity ==
  [][\A t \in Threads :
       /\ At(t, 5) /\ prog'[t] = 1
            => /\ guard'[t] \in FullGuards
               /\ guard'[t] = "read" <=> guard[t] = "mapped_read"
               /\ state' = state /\ pc' = pc
       /\ At(t, 5) /\ prog'[t] = 6
            => /\ guard'[t] = guard[t] /\ guard[t] \in MappedGuards
               /\ state' = state /\ other' = other /\ pc' = pc]_vars

\* recover was handed the second mutex, which is in use; the caller still
\* owns the mapped write guard and the write ticket
C15_Witness ==
  \E t \in Threads :
    /\ At(t, 6) /\ guard[t] = "mapped_write"
    /\ state = WRITER_ACTIVE /\ other # 0

\* C16: announced-writer invariant. While the internal mutex is free and
\* writer_active is set there is exactly one announced writer; with readers
\* left it is inside write(), past the flag, waiting for them to drain and
\* owns no write guard, and with no readers it owns the write lock, is
\* about to be handed it, or has not run its release yet. A step that starts
\* and ends with the flag set does not change who the announced writer is.
C16_AnnouncedWriter ==
  /\ [](mx = NoThread /\ is_writer_active(state)
          => /\ Cardinality(CountedWriters) = 1
             /\ \A w \in CountedWriters :
                  /\ readers(state) > 0
                       => pc[w] = "write_drain" /\ guard[w] = "none"
                  /\ readers(state) = 0
                       => \/ guard[w] \in {"write", "mapped_write"}
                          \/ pc[w] \in {"write_drain", "unlock_write", "release_write"})
  /\ [][is_writer_active(state) /\ is_writer_active(state')
          => CountedWriters' = CountedWriters]_vars

\* a writer has announced and waits on `readers` for a reader that is still
\* in, while a second writer is blocked on `both`
C16_Witness ==
  \E w, u \in Threads :
    /\ w # u /\ mx = NoThread
    /\ is_writer_active(state) /\ readers(state) > 0
    /\ pc[w] = "write_drain" /\ w \in readers_w
    /\ pc[u] = "write_from" /\ u \in both_w

\* C17: the reader count is exact. While the internal mutex is free and
\* writer_active is clear, the readers field is the number of threads that
\* have a read ticket: the owners of a read guard and the threads whose
\* read release has been started and has not run yet.
C17_ReaderCountExact ==
  mx = NoThread /\ ~is_writer_active(state)
    => readers(state) = Cardinality(CountedReaders)

\* one reader is in, while a thread that released in read->read and a
\* thread that released in write->read wait on `cond` for their acquire half
C17_Witness ==
  \E t, u, v \in Threads :
    /\ mx = NoThread /\ ~is_writer_active(state) /\ readers(state) = 1
    /\ guard[t] = "read"
    /\ call[u] = "r2r" /\ u \in cond_w
    /\ call[v] = "w2r" /\ v \in cond_w

\* C18: the signalling rule of unlock_read. A read release takes one off
\* the readers field and leaves the flag; it notifies one thread on
\* `readers` exactly when the flag is set and no reader is left, otherwise
\* one thread on `both` exactly when the readers field was at its maximum,
\* and otherwise nobody. After the release of the last reader under a set
\* flag no thread is left waiting on `readers`.
C18_UnlockReadSignals ==
  [][\A t \in Threads :
       ReleasesRead(t)
         => /\ readers(state) > 0
            /\ readers(state') = readers(state) - 1
            /\ is_writer_active(state') <=> is_writer_active(state)
            /\ IF is_writer_active(state) /\ readers(state') = 0
                 THEN OneWoken(readers_w, readers_w') /\ both_w' = both_w
                             /\ readers_w' = {}
                 ELSE IF at_max_readers(state)
                        THEN OneWoken(both_w, both_w') /\ readers_w' = readers_w
                        ELSE both_w' = both_w /\ readers_w' = readers_w]_vars

\* the last reader has released under a set flag and the announced writer is
\* off `readers`, about to be handed the lock
C18_Witness ==
  \E w \in Threads :
    /\ mx = NoThread
    /\ is_writer_active(state) /\ readers(state) = 0
    /\ pc[w] = "write_drain" /\ ~Blocked(w)

\* C19: unlock_write resets and wakes everyone. A write release runs with
\* the flag set and no readers, leaves the state word zero and leaves no
\* thread waiting on `both`; `readers` is not signalled.
C19_UnlockWriteWakesAll ==
  [][\A t \in Threads :
       ReleasesWrite(t)
         => /\ is_writer_active(state) /\ readers(state) = 0
            /\ state' = 0
            /\ both_w' = {}
            /\ readers_w' = readers_w]_vars

\* a writer is in the gap after the release half of its transition; the
\* state word is zero and a reader and a writer that came while it held the
\* lock are both off `both`
C19_Witness ==
  \E t, u, v \in Threads :
    /\ pc[t] = "cond_wait" /\ call[t] \in {"w2r", "w2w"}
    /\ state = 0 /\ both_w = {}
    /\ pc[u] = "read_from" /\ call[u] = "read"
    /\ pc[v] = "write_from" /\ call[v] = "write"

\* C21: read guards upgraded at the same time do not deadlock. A thread in
\* wait_for_write that is past its release half has no read ticket and the
\* readers field does not count it; the readers an announced writer waits
\* for are never themselves waiting, on a condition variable or as upgraders;
\* and with every thread scheduled and `cond` notified, all workers get the
\* write lock in turn and finish.
C21_ConcurrentUpgrade ==
  /\ [](\A t \in Threads :
          call[t] = "r2w" /\ pc[t] # "release_read"
            => /\ t \notin CountedReaders
               /\ readers(state) = Cardinality(CountedReaders))
  /\ [](\A w \in Threads :
          pc[w] = "write_drain"
            => \A u \in CountedReaders :
                 ~Blocked(u) /\ pc[u] \in {"idle", "release_read"})
  /\ <>UpgradeDone

\* both workers went into wait_for_write holding read guards; one owns the
\* write lock now and the other, notified, waits on `both` for its turn
C21_Witness ==
  \E t, u \in Threads :
    /\ t # u
    /\ WriteHolder(t) /\ At(t, 2)
    /\ call[u] = "r2w" /\ pc[u] = "write_from" /\ u \in both_w

====
